---- MODULE Spec2Model ----
(***************************************************************************)
(* A model of src/gasprice.py: one run of main() for the energy types that *)
(* have a country table (Gasoline, Diesel, LPG).  A run fetches the price  *)
(* table, computes and shows the rounded mean and standard deviation,      *)
(* reads the selected countries, sorts them into the position groups,      *)
(* and then runs either the distribution analysis (std-dev bands) or the   *)
(* boxplot analysis (quartile and outlier status).                         *)
(*                                                                         *)
(* Numbers.  A price is an integer count of "fine units"; Grain fine units *)
(* make one 0.001, the quantum round(x, 3) rounds to.  mu and sigma are    *)
(* therefore multiples of Grain.  The quartiles, which the code does not   *)
(* round, are kept exactly, in units of 1/Scale of a fine unit.            *)
(***************************************************************************)
EXTENDS Integers, Sequences, FiniteSets

\* ------------------------------------------------------------------ bounds
NumNames == 4      \* country names in play (rows of the table are a prefix)
MaxPrice == 4      \* prices are 1..MaxPrice fine units
Grain == 2         \* fine units per rounding quantum (0.001)
MaxSel == 3        \* countries selected in one run (the widget allows 5)

max_selections == 5

NameList == <<"A", "B", "C", "D", "E", "F">>
Names == {NameList[i] : i \in 1..NumNames}

\* np.mean / np.std / quantile of an empty column: nan
NaN == -1000

\* 0.25 and 0.75 interpolation weights times the 1.5 fence factor: eighths
Scale == 2 * 4

VARIABLES pc, df, mu, sigma, metrics, raised, countries, country_data,
          position_groups, errors, commentary, plot_type, dist_groups,
          q1, median, q3, iqr, lower_bound, upper_bound, assessed

vars == <<pc, df, mu, sigma, metrics, raised, countries, country_data,
          position_groups, errors, commentary, plot_type, dist_groups,
          q1, median, q3, iqr, lower_bound, upper_bound, assessed>>

box == <<q1, median, q3, iqr, lower_bound, upper_bound, assessed>>

\* ------------------------------------------------------------- helpers
RECURSIVE Sum(_)
Sum(s) == IF s = <<>> THEN 0 ELSE Head(s) + Sum(Tail(s))

RECURSIVE SumSq(_)
SumSq(s) == IF s = <<>> THEN 0 ELSE Head(s) * Head(s) + SumSq(Tail(s))

RECURSIVE Insert(_, _)
Insert(x, s) ==
    IF s = <<>> THEN <<x>>
    ELSE IF x <= Head(s) THEN <<x>> \o s
    ELSE <<Head(s)>> \o Insert(x, Tail(s))

RECURSIVE Sorted(_)
Sorted(s) == IF s = <<>> THEN <<>> ELSE Insert(Head(s), Sorted(Tail(s)))

Abs(x) == IF x < 0 THEN -x ELSE x

\* df['Price'].values
Prices(d) == [i \in 1..Len(d) |-> d[i].Price]

Monotone(f) ==
    \/ \A i, j \in DOMAIN f : i < j => f[i] <= f[j]
    \/ \A i, j \in DOMAIN f : i < j => f[i] >= f[j]

\* the tables a fetch can return: rows for the first n names, the rows in
\* ascending or in descending price order.  The code sums or sorts the
\* column and looks rows up by name, so other row orders add no behaviour.
Tables ==
    UNION {{[i \in 1..n |-> [Country |-> NameList[i], Price |-> f[i]]] :
              f \in {g \in [1..n -> 1..MaxPrice] : Monotone(g)}} :
           n \in 0..NumNames}

\* the values st.multiselect can hand over: distinct names, in click order
Selections ==
    {s \in UNION {[1..m -> Names] : m \in 0..MaxSel} :
        /\ Len(s) <= max_selections
        /\ \A i, j \in 1..Len(s) : i # j => s[i] # s[j]}

\* ------------------------------------------------------- lines 126-131
\* round(float(np.mean(p)), 3): the multiples of Grain nearest to Sum/N.
\* A value half-way between two quanta goes to the side its binary
\* representation falls on, so both neighbours are possible outcomes.
RoundMean(p) ==
    IF Len(p) = 0 THEN {NaN}
    ELSE {Grain * k : k \in {j \in 0..MaxPrice :
             2 * Abs(Sum(p) - j * Grain * Len(p)) <= Grain * Len(p)}}

\* N^2 times the population variance
VarNum(p) == Len(p) * SumSq(p) - Sum(p) * Sum(p)

\* round(float(np.std(p)), 3): the multiples of Grain nearest to
\* sqrt(VarNum)/N (population standard deviation, divisor N).
RoundStd(p) ==
    IF Len(p) = 0 THEN {NaN}
    ELSE LET GN == Grain * Len(p) IN
         {Grain * k : k \in {j \in 0..MaxPrice :
             /\ j = 0 \/ (2 * j - 1) * (2 * j - 1) * GN * GN <= 4 * VarNum(p)
             /\ 4 * VarNum(p) <= (2 * j + 1) * (2 * j + 1) * GN * GN}}

FAdd(a, b) == IF a = NaN \/ b = NaN THEN NaN ELSE a + b
FSub(a, b) == IF a = NaN \/ b = NaN THEN NaN ELSE a - b

o_std == FAdd(sigma, mu)
nv_mu_80 == FSub(mu, sigma)
nv_mu_95 == FSub(mu, FAdd(sigma, sigma))

\* ------------------------------------------------------- lines 165-180
\* df[df['Country'] == country]['Price'].values
Matches(d, country) == SelectSeq(d, LAMBDA r : r.Country = country)

\* .values[0] raises IndexError when no row matches
Found(d, country) == Len(Matches(d, country)) > 0

Lookup(d, country) == Matches(d, country)[1].Price

\* mutant: the first test written value >= mu
PositionGroupInclusive(value, m, s) ==
    LET o == s + m
        n80 == m - s
        n95 == m - 2 * s
    IN  IF value < o /\ value >= m THEN "close_to_68_1"
        ELSE IF value < m /\ value > n80 THEN "close_to_68_2"
        ELSE IF value < n80 /\ value > n95 THEN "less_than_80"
        ELSE IF value < n95 THEN "less_than_95"
        ELSE IF value > o THEN "more_than_80"
        ELSE "none"

\* the if/elif chain of lines 169-178; "none" when no branch is taken
PositionGroup(value, m, s) ==
    LET o == s + m
        n80 == m - s
        n95 == m - 2 * s
    IN  IF value < o /\ value > m THEN "close_to_68_1"
        ELSE IF value < m /\ value > n80 THEN "close_to_68_2"
        ELSE IF value < n80 /\ value > n95 THEN "less_than_80"
        ELSE IF value < n95 THEN "less_than_95"
        ELSE IF value > o THEN "more_than_80"
        ELSE "none"

GroupNames == {"close_to_68_1", "close_to_68_2", "less_than_80",
               "less_than_95", "more_than_80"}

EmptyGroups == [g \in GroupNames |-> <<>>]

\* country_data[country] = value on an insertion-ordered dict
DictSet(cd, k, v) ==
    IF \E i \in 1..Len(cd) : cd[i].country = k
    THEN [i \in 1..Len(cd) |->
             IF cd[i].country = k THEN [country |-> k, value |-> v] ELSE cd[i]]
    ELSE Append(cd, [country |-> k, value |-> v])

\* one pass of the loop body for `country`, on the loop state st
LoopBody(d, m, s, country, st) ==
    IF Found(d, country)
    THEN LET value == Lookup(d, country)
             g == PositionGroup(value, m, s)
         IN  [data |-> DictSet(st.data, country, value),
              groups |-> IF g = "none" THEN st.groups
                         ELSE [st.groups EXCEPT ![g] = Append(@, country)],
              errs |-> st.errs]
    ELSE [st EXCEPT !.errs = Append(@, country)]

\* mutant: no try/except, the first name without a row ends the loop
RECURSIVE ForCountriesAbort(_, _, _, _, _)
ForCountriesAbort(d, m, s, sel, st) ==
    IF sel = <<>> \/ ~Found(d, Head(sel)) THEN st
    ELSE ForCountriesAbort(d, m, s, Tail(sel),
                           LoopBody(d, m, s, Head(sel), st))

RECURSIVE ForCountries(_, _, _, _, _)
ForCountries(d, m, s, sel, st) ==
    IF sel = <<>> THEN st
    ELSE ForCountries(d, m, s, Tail(sel), LoopBody(d, m, s, Head(sel), st))

\* ------------------------------------------------------- lines 205-216
Commentary(pg) ==
    (IF pg["close_to_68_1"] # <<>> \/ pg["close_to_68_2"] # <<>>
     THEN <<[kind |-> "close_to_68",
             names |-> pg["close_to_68_1"] \o pg["close_to_68_2"]]>>
     ELSE <<>>)
    \o (IF pg["less_than_80"] # <<>>
        THEN <<[kind |-> "less_than_80", names |-> pg["less_than_80"]]>>
        ELSE <<>>)
    \o (IF pg["less_than_95"] # <<>>
        THEN <<[kind |-> "less_than_95", names |-> pg["less_than_95"]]>>
        ELSE <<>>)
    \o (IF pg["more_than_80"] # <<>>
        THEN <<[kind |-> "more_than_80", names |-> pg["more_than_80"]]>>
        ELSE <<>>)

\* ------------------------------------------------------- lines 244-251
BandNames == {"Above 1 Std Dev", "Below 1 Std Dev", "Within 1 Std Dev"}

EmptyBands == [b \in BandNames |-> <<>>]

StdDevBand(value, m, s) ==
    IF value > m + s THEN "Above 1 Std Dev"
    ELSE IF value < m - s THEN "Below 1 Std Dev"
    ELSE "Within 1 Std Dev"

\* mutant: insert(0, country) in place of append(country)
RECURSIVE DistGroupsPrepend(_, _, _, _)
DistGroupsPrepend(cd, m, s, acc) ==
    IF cd = <<>> THEN acc
    ELSE DistGroupsPrepend(Tail(cd), m, s,
            [acc EXCEPT ![StdDevBand(Head(cd).value, m, s)] =
                            <<Head(cd).country>> \o @])

RECURSIVE DistGroups(_, _, _, _)
DistGroups(cd, m, s, acc) ==
    IF cd = <<>> THEN acc
    ELSE DistGroups(Tail(cd), m, s,
            [acc EXCEPT ![StdDevBand(Head(cd).value, m, s)] =
                            Append(@, Head(cd).country)])

\* ------------------------------------------------------- lines 281-286
\* mutant: interpolation on the column as fetched, not sorted
QuantileUnsorted(p, num) ==
    IF Len(p) = 0 THEN NaN
    ELSE LET xs == p
             h4 == (Len(p) - 1) * num
             lo == h4 \div 4
             r  == h4 % 4
         IN  IF r = 0 THEN Scale * xs[lo + 1]
             ELSE 2 * (4 * xs[lo + 1] + r * (xs[lo + 2] - xs[lo + 1]))

\* Series.quantile(num/4), linear interpolation between the two order
\* statistics around position (N-1)*num/4; the result times Scale.
Quantile(p, num) ==
    IF Len(p) = 0 THEN NaN
    ELSE LET xs == Sorted(p)
             h4 == (Len(p) - 1) * num
             lo == h4 \div 4
             r  == h4 % 4
         IN  IF r = 0 THEN Scale * xs[lo + 1]
             ELSE 2 * (4 * xs[lo + 1] + r * (xs[lo + 2] - xs[lo + 1]))

\* Series.median(): the middle value, or the mean of the two middle values
Median(p) ==
    IF Len(p) = 0 THEN NaN
    ELSE LET xs == Sorted(p)
             n  == Len(p)
         IN  IF n % 2 = 1 THEN Scale * xs[(n + 1) \div 2]
             ELSE (Scale \div 2) * (xs[n \div 2] + xs[n \div 2 + 1])

\* q - 1.5 * w and q + 1.5 * w; 1.5 * w is 3 * (w / 2), every quartile
\* being an even number of eighths
LowerFence(q, w) == IF q = NaN \/ w = NaN THEN NaN ELSE q - 3 * (w \div 2)
UpperFence(q, w) == IF q = NaN \/ w = NaN THEN NaN ELSE q + 3 * (w \div 2)

\* ------------------------------------------------------- lines 290-317
\* mutant: the median test written value <= median
QuartileOfLeMedian(value, qa, med, qb) ==
    IF Scale * value < qa THEN "Lowest Quartile (Q1)"
    ELSE IF Scale * value <= med THEN "Second Quartile (Q2)"
    ELSE IF Scale * value < qb THEN "Third Quartile (Q3)"
    ELSE "Highest Quartile (Q4)"

\* mutant: the q1 test written value <= q1
QuartileOfLeQ1(value, qa, med, qb) ==
    IF Scale * value <= qa THEN "Lowest Quartile (Q1)"
    ELSE IF Scale * value < med THEN "Second Quartile (Q2)"
    ELSE IF Scale * value < qb THEN "Third Quartile (Q3)"
    ELSE "Highest Quartile (Q4)"

\* value is in fine units; the edges are in 1/Scale fine units
QuartileOf(value, qa, med, qb) ==
    IF Scale * value < qa THEN "Lowest Quartile (Q1)"
    ELSE IF Scale * value < med THEN "Second Quartile (Q2)"
    ELSE IF Scale * value < qb THEN "Third Quartile (Q3)"
    ELSE "Highest Quartile (Q4)"

\* mutant: the fences themselves count as outliers
OutlierOfInclusive(value, lo, hi) ==
    IF Scale * value <= lo \/ Scale * value >= hi
    THEN "Statistical Outlier"
    ELSE "Within Normal Range"

OutlierOf(value, lo, hi) ==
    IF Scale * value < lo \/ Scale * value > hi
    THEN "Statistical Outlier"
    ELSE "Within Normal Range"

Assess(cd, qa, med, qb, lo, hi) ==
    [i \in 1..Len(cd) |->
        [country  |-> cd[i].country,
         quartile |-> QuartileOf(cd[i].value, qa, med, qb),
         outlier  |-> OutlierOf(cd[i].value, lo, hi)]]

\* ------------------------------------------------------------ the run
NoMetrics == [shown |-> FALSE, mu |-> 0, sigma |-> 0, count |-> 0]

Init ==
    /\ pc = "start"
    /\ df = <<>>
    /\ mu = 0
    /\ sigma = 0
    /\ metrics = NoMetrics
    /\ raised = "none"
    /\ countries = <<>>
    /\ country_data = <<>>
    /\ position_groups = EmptyGroups
    /\ errors = <<>>
    /\ commentary = <<>>
    /\ plot_type = "none"
    /\ dist_groups = EmptyBands
    /\ q1 = 0
    /\ median = 0
    /\ q3 = 0
    /\ iqr = 0
    /\ lower_bound = 0
    /\ upper_bound = 0
    /\ assessed = <<>>

\* lines 124-138: fetch the table, compute and show the statistics.
\* Nothing here checks that the table has rows.
Fetch ==
    /\ pc = "start"
    /\ \E d \in Tables :
         /\ df' = d
         /\ \E m \in RoundMean(Prices(d)), s \in RoundStd(Prices(d)) :
              /\ mu' = m
              /\ sigma' = s
              /\ metrics' = [shown |-> TRUE, mu |-> m, sigma |-> s,
                             count |-> Len(d)]
    /\ pc' = "fetched"
    /\ UNCHANGED <<raised, countries, country_data, position_groups, errors,
                   commentary, plot_type, dist_groups, box>>

\* lines 141-216: read the selection; with a selection, run the loop over
\* it and build the position commentary
Compare ==
    /\ pc = "fetched"
    /\ \E sel \in Selections :
         /\ countries' = sel
         /\ IF sel = <<>>
            THEN /\ pc' = "done"
                 /\ UNCHANGED <<country_data, position_groups, errors,
                                commentary>>
            ELSE LET st == ForCountries(df, mu, sigma, sel,
                              [data |-> <<>>, groups |-> EmptyGroups,
                               errs |-> <<>>])
                 IN  /\ country_data' = st.data
                     /\ position_groups' = st.groups
                     /\ errors' = st.errs
                     /\ commentary' = Commentary(st.groups)
                     /\ pc' = "compared"
    /\ UNCHANGED <<df, mu, sigma, metrics, raised, plot_type, dist_groups,
                   box>>

\* lines 218-257: the distribution analysis
DistributionPlot ==
    /\ pc = "compared"
    /\ plot_type' = "Distribution Plot"
    /\ dist_groups' = DistGroups(country_data, mu, sigma, EmptyBands)
    /\ pc' = "done"
    /\ UNCHANGED <<df, mu, sigma, metrics, raised, countries, country_data,
                   position_groups, errors, commentary, box>>

\* lines 259-338: the boxplot analysis
BoxplotAnalysis ==
    /\ pc = "compared"
    /\ plot_type' = "Boxplot Analysis"
    /\ q1' = Quantile(Prices(df), 1)
    /\ median' = Median(Prices(df))
    /\ q3' = Quantile(Prices(df), 3)
    /\ iqr' = FSub(q3', q1')
    /\ lower_bound' = LowerFence(q1', iqr')
    /\ upper_bound' = UpperFence(q3', iqr')
    /\ assessed' = Assess(country_data, q1', median', q3', lower_bound',
                          upper_bound')
    /\ pc' = "done"
    /\ UNCHANGED <<df, mu, sigma, metrics, raised, countries, country_data,
                   position_groups, errors, commentary, dist_groups>>

\* a widget interaction reruns the script from the top; nothing is kept
Rerun ==
    /\ pc = "done"
    /\ pc' = "start"
    /\ df' = <<>>
    /\ mu' = 0
    /\ sigma' = 0
    /\ metrics' = NoMetrics
    /\ raised' = "none"
    /\ countries' = <<>>
    /\ country_data' = <<>>
    /\ position_groups' = EmptyGroups
    /\ errors' = <<>>
    /\ commentary' = <<>>
    /\ plot_type' = "none"
    /\ dist_groups' = EmptyBands
    /\ q1' = 0
    /\ median' = 0
    /\ q3' = 0
    /\ iqr' = 0
    /\ lower_bound' = 0
    /\ upper_bound' = 0
    /\ assessed' = <<>>

Next == Fetch \/ Compare \/ DistributionPlot \/ BoxplotAnalysis \/ Rerun

Spec == Init /\ [][Next]_vars

\* ================================================================ claims
Count(seq, x) == Cardinality({i \in DOMAIN seq : seq[i] = x})

IndexOf(seq, x) == CHOOSE i \in DOMAIN seq : seq[i] = x

InData(c) == \E i \in DOMAIN country_data : country_data[i].country = c

InAssessed(c) == \E i \in DOMAIN assessed : assessed[i].country = c

AfterDistribution == pc = "done" /\ plot_type = "Distribution Plot"

AfterBoxplot == pc = "done" /\ plot_type = "Boxplot Analysis"

Uniform(d) == Len(d) >= 1 /\ \A i \in DOMAIN d : d[i].Price = d[1].Price

\* price > mean + std_dev on the exact statistics of the column p:
\* N*price - Sum > sqrt(VarNum)
ExactAbove(value, p) ==
    LET e == Len(p) * value - Sum(p) IN e > 0 /\ e * e > VarNum(p)

\* price < mean - std_dev on the exact statistics of the column p
ExactBelow(value, p) ==
    LET e == Sum(p) - Len(p) * value IN e > 0 /\ e * e > VarNum(p)

\* C1: every focus country found in the table is in exactly one band,
\* above_1sd iff price > mean + std_dev, below_1sd iff price < mean -
\* std_dev, within_1sd otherwise, mean and std_dev being the arithmetic
\* mean and the population standard deviation of the table.
C1_BandByMeanAndStdDev ==
    AfterDistribution =>
        \A i \in DOMAIN country_data :
            LET c == country_data[i].country
                v == country_data[i].value
                p == Prices(df)
            IN  /\ Count(dist_groups["Above 1 Std Dev"], c) = 
                       (IF ExactAbove(v, p) THEN 1 ELSE 0)
                /\ Count(dist_groups["Below 1 Std Dev"], c) =
                       (IF ExactBelow(v, p) THEN 1 ELSE 0)
                /\ Count(dist_groups["Within 1 Std Dev"], c) =
                       (IF ExactAbove(v, p) \/ ExactBelow(v, p) THEN 0 ELSE 1)

\* C2: every focus country found in the table gets exactly one quartile
\* bucket: Q1 iff price < q1, Q2 iff q1 <= price < median, Q3 iff
\* median <= price < q3, Q4 iff price >= q3.
C2_QuartileBucket ==
    AfterBoxplot =>
        /\ Len(assessed) = Len(country_data)
        /\ \A i \in DOMAIN country_data :
            LET v == Scale * country_data[i].value
                b == assessed[i].quartile
            IN  /\ assessed[i].country = country_data[i].country
                /\ Count([j \in DOMAIN assessed |-> assessed[j].country],
                         country_data[i].country) = 1
                /\ b \in {"Lowest Quartile (Q1)", "Second Quartile (Q2)",
                          "Third Quartile (Q3)", "Highest Quartile (Q4)"}
                /\ (b = "Lowest Quartile (Q1)") <=> (v < q1)
                /\ (b = "Second Quartile (Q2)") <=> (q1 <= v /\ v < median)
                /\ (b = "Third Quartile (Q3)") <=> (median <= v /\ v < q3)
                /\ (b = "Highest Quartile (Q4)") <=> (v >= q3)

C2_Witness ==
    /\ AfterBoxplot
    /\ \E i, j \in DOMAIN assessed :
         /\ assessed[i].quartile = "Second Quartile (Q2)"
         /\ assessed[j].quartile = "Third Quartile (Q3)"

\* C3 as stated: a price equal to a quartile edge is put in the
\* lower-numbered of the two buckets that meet there (q1: Q1, median: Q2,
\* q3: Q3); taken where the three edges are distinct.
C3_TieGoesToLowerBucket ==
    (AfterBoxplot /\ q1 < median /\ median < q3) =>
        \A i \in DOMAIN assessed :
            LET v == Scale * country_data[i].value
                b == assessed[i].quartile
            IN  /\ v = q1 => b = "Lowest Quartile (Q1)"
                /\ v = median => b = "Second Quartile (Q2)"
                /\ v = q3 => b = "Third Quartile (Q3)"

\* C3 amended: a price equal to a quartile edge is put in the
\* higher-numbered bucket: Q4 at q3, Q3 at the median (below q3), Q2 at
\* q1 (below the median).
C3_TieGoesToHigherBucket ==
    AfterBoxplot =>
        \A i \in DOMAIN assessed :
            LET v == Scale * country_data[i].value
                b == assessed[i].quartile
            IN  /\ v = q3 => b = "Highest Quartile (Q4)"
                /\ (v = median /\ v < q3) => b = "Third Quartile (Q3)"
                /\ (v = q1 /\ v < median) => b = "Second Quartile (Q2)"

C3_Witness ==
    /\ AfterBoxplot
    /\ q1 < median /\ median < q3
    /\ \E i \in DOMAIN assessed :
         /\ Scale * country_data[i].value = q1
         /\ assessed[i].quartile = "Second Quartile (Q2)"

\* C4: a focus country is a statistical outlier iff its price is strictly
\* below q1 - 1.5*(q3 - q1) or strictly above q3 + 1.5*(q3 - q1); a price
\* on a fence is not an outlier.  (Both sides doubled to stay in integers.)
C4_OutlierIffBeyondFence ==
    AfterBoxplot =>
        \A i \in DOMAIN assessed :
            LET v == Scale * country_data[i].value
            IN  (assessed[i].outlier = "Statistical Outlier") <=>
                    \/ 2 * v < 2 * q1 - 3 * (q3 - q1)
                    \/ 2 * v > 2 * q3 + 3 * (q3 - q1)

C4_Witness ==
    /\ AfterBoxplot
    /\ \E i, j \in DOMAIN assessed :
         /\ assessed[i].outlier = "Statistical Outlier"
         /\ assessed[j].outlier = "Within Normal Range"

\* C5: for a table of N >= 1 records the quartiles are ordered,
\* q1 <= median <= q3, hence iqr >= 0 and
\* lower_fence <= q1 <= q3 <= upper_fence.
C5_QuartilesOrdered ==
    (AfterBoxplot /\ Len(df) >= 1) =>
        /\ q1 <= median
        /\ median <= q3
        /\ iqr >= 0
        /\ lower_bound <= q1
        /\ q3 <= upper_bound

C5_Witness ==
    /\ AfterBoxplot
    /\ q1 < median /\ median < q3
    /\ Prices(df) # Sorted(Prices(df))

\* C6: for a uniform table std_dev is 0, both fences equal the common
\* price, every country is within_1sd and no country is an outlier.
C6_UniformTable ==
    (pc = "done" /\ Uniform(df)) =>
        /\ sigma = 0
        /\ plot_type = "Distribution Plot" =>
              \A i \in DOMAIN country_data :
                  Count(dist_groups["Within 1 Std Dev"],
                        country_data[i].country) = 1
        /\ plot_type = "Boxplot Analysis" =>
              /\ lower_bound = Scale * df[1].Price
              /\ upper_bound = Scale * df[1].Price
              /\ \A i \in DOMAIN assessed :
                    assessed[i].outlier = "Within Normal Range"

\* C7: a selected name that is not in the table gets an error message and
\* no assessment (no entry in country_data, in a position group, in a
\* band or in the quartile/outlier analysis), and every other selected
\* country is still assessed.
C7_MissingCountryReportedOthersAssessed ==
    pc \in {"compared", "done"} =>
        \A i \in DOMAIN countries :
            LET c == countries[i] IN
            IF Found(df, c)
            THEN /\ InData(c)
                 /\ Count(errors, c) = 0
                 /\ AfterDistribution =>
                      \E b \in BandNames : Count(dist_groups[b], c) = 1
                 /\ AfterBoxplot => InAssessed(c)
            ELSE /\ Count(errors, c) = 1
                 /\ ~InData(c)
                 /\ \A g \in GroupNames : Count(position_groups[g], c) = 0
                 /\ \A k \in DOMAIN commentary :
                      Count(commentary[k].names, c) = 0
                 /\ \A b \in BandNames : Count(dist_groups[b], c) = 0
                 /\ ~InAssessed(c)

C7_Witness ==
    /\ pc = "done"
    /\ Len(countries) = 3
    /\ Found(df, countries[1])
    /\ ~Found(df, countries[2])
    /\ Found(df, countries[3])
    /\ errors = <<countries[2]>>
    /\ Len(country_data) = 2

\* C8: computing the statistics of an empty table fails with
\* EmptyTableError, and no mean, standard deviation or count is shown.
C8_EmptyTableFails ==
    (pc # "start" /\ Len(df) = 0) =>
        /\ raised = "EmptyTableError"
        /\ ~metrics.shown

\* C9: each band's list keeps the countries in the order they were
\* supplied, and each supplied country found in the table is in exactly
\* one of the three lists, once.
C9_BandsPreserveSupplyOrder ==
    AfterDistribution =>
        /\ \A b \in BandNames :
             \A x, y \in DOMAIN dist_groups[b] :
                x < y => /\ Count(countries, dist_groups[b][x]) = 1
                         /\ Count(countries, dist_groups[b][y]) = 1
                         /\ IndexOf(countries, dist_groups[b][x])
                              < IndexOf(countries, dist_groups[b][y])
        /\ \A i \in DOMAIN countries :
             Found(df, countries[i]) =>
                Count(dist_groups["Above 1 Std Dev"], countries[i])
                  + Count(dist_groups["Below 1 Std Dev"], countries[i])
                  + Count(dist_groups["Within 1 Std Dev"], countries[i]) = 1

C9_Witness ==
    /\ AfterDistribution
    /\ \E b \in BandNames :
         /\ Len(countries) = 3
         /\ dist_groups[b] = <<countries[1], countries[3]>>
         /\ countries[1] = NameList[3]
         /\ countries[3] = NameList[1]
         /\ \E b2 \in BandNames \ {b} : dist_groups[b2] = <<countries[2]>>

\* C10: every selected country whose price is found is in at most one
\* position group, and in none exactly when its price equals mu,
\* mu + sigma, mu - sigma or mu - 2*sigma; such a country is still in
\* country_data and is named in no position commentary.
C10_PositionGroups ==
    pc \in {"compared", "done"} =>
        \A i \in DOMAIN countries :
            Found(df, countries[i]) =>
                LET c == countries[i]
                    v == Lookup(df, c)
                    n == Sum([k \in 1..5 |->
                            Count(position_groups[
                              <<"close_to_68_1", "close_to_68_2",
                                "less_than_80", "less_than_95",
                                "more_than_80">>[k]], c)])
                IN  /\ n <= 1
                    /\ (n = 0) <=> (v \in {mu, o_std, nv_mu_80, nv_mu_95})
                    /\ InData(c)
                    /\ n = 0 => \A k \in DOMAIN commentary :
                                   Count(commentary[k].names, c) = 0
                    /\ n = 1 => \E k \in DOMAIN commentary :
                                   Count(commentary[k].names, c) = 1

C10_Witness ==
    /\ pc = "compared"
    /\ sigma > 0
    /\ \E i, j \in DOMAIN country_data :
         /\ country_data[i].value = o_std
         /\ \A g \in GroupNames :
              Count(position_groups[g], country_data[i].country) = 0
         /\ Count(position_groups["close_to_68_1"],
                  country_data[j].country) = 1

====
